---- MODULE Spec2Model ----
(***************************************************************************)
(* State-machine model of trim_audio.py: the batch MP3 trimmer.            *)
(*                                                                         *)
(* The script is one sequential control flow.  Its steps are the actions   *)
(* below; the position in the script is pc.  The file system (directory    *)
(* listing, file contents) and the codec (pydub / ffmpeg) are the          *)
(* environment: every call into them either returns or raises, and the     *)
(* model takes both branches.  Writing to standard output is assumed not   *)
(* to raise.                                                               *)
(***************************************************************************)
EXTENDS Integers, Sequences, FiniteSets, TLC

(* ------------------------------ bounds --------------------------------- *)

\* Largest number of entries in the music directory.
MaxFiles == 2

\* Number of consecutive invocations of the script over the same directory.
MaxRuns == 2

\* Largest amount (ms) by which decoding an MP3 can differ from the duration
\* of the buffer that was encoded into it (frame padding of the codec).
MaxPad == 26

(* ------------------------- program constants --------------------------- *)

\* trim_duration = 20 * 1000
trim_duration == 20000

\* bitrate="192k": kilobits per second of the encoded file
bitrate_kbps == 192

(* ------------------------------ names ---------------------------------- *)

\* File names are sequences of characters.
MP3_SUFFIX == <<".", "m", "p", "3">>
TEMP_PREFIX == <<"t", "e", "m", "p", "_">>

N_a_mp3 == <<"a", ".", "m", "p", "3">>
N_b_mp3 == <<"b", ".", "m", "p", "3">>
N_temp_c_mp3 == <<"t", "e", "m", "p", "_", "c", ".", "m", "p", "3">>
N_d_MP3 == <<"d", ".", "M", "P", "3">>
N_mp3 == <<"m", "p", "3">>

\* Entry names the directory may hold: two eligible ones, one with the
\* reserved prefix, one with the suffix in upper case, one shorter than the
\* suffix.
Names == {N_a_mp3, N_b_mp3, N_temp_c_mp3, N_d_MP3, N_mp3}

\* Durations (ms) of the audio initially stored in a file.
Durations == {5000, trim_duration, trim_duration + 1}

\* Differences between a decoded duration and the encoded one.
CodecPads == {0, MaxPad}

(* --------------------------- pure functions ---------------------------- *)

\* str.endswith(suffix)
endswith(s, suffix) ==
    /\ Len(s) >= Len(suffix)
    /\ SubSeq(s, Len(s) - Len(suffix) + 1, Len(s)) = suffix

\* str.startswith(prefix)
startswith(s, prefix) ==
    /\ Len(s) >= Len(prefix)
    /\ SubSeq(s, 1, Len(prefix)) = prefix

\* Variant: the test for the reserved prefix is left out.
Eligible_NoPrefixCheck(filename) == endswith(filename, MP3_SUFFIX)

\* Variant: the suffix is compared without regard to case.
Eligible_AnyCase(filename) ==
    /\ endswith(filename, MP3_SUFFIX) \/ endswith(filename, <<".", "M", "P", "3">>)
    /\ ~startswith(filename, TEMP_PREFIX)

\* filename.endswith(".mp3") and not filename.startswith("temp_")
Eligible(filename) ==
    endswith(filename, MP3_SUFFIX) /\ ~startswith(filename, TEMP_PREFIX)

\* Variant: audio[:n - 1], one millisecond short.
Slice_OffByOne(d, n) == IF d >= n THEN n - 1 ELSE d

\* Variant: audio[n:], what follows the first n ms.
Slice_Tail(d, n) == IF d > n THEN d - n ELSE 0

\* Variant: the buffer is exported uncut.
Slice_NoCut(d, n) == d

\* audio[:n] on a buffer of duration d: the first n ms, or all of it when the
\* buffer is not longer than n.
Slice(d, n) == IF d > n THEN n ELSE d

\* Size in bytes of d ms of audio encoded at the constant bitrate.
EncodedSize(d) == (d * bitrate_kbps) \div 8

Range(s) == {s[i] : i \in 1..Len(s)}

(* ------------------------------ state ---------------------------------- *)

VARIABLES
    dirEntries,       \* environment: what os.listdir("music") yields, in order
    disk,             \* environment: name -> [dur, intact] content of each file
    codec_pad,        \* environment: what decoding adds to an encoded duration
    pc,               \* position in the script
    run,              \* number of the current invocation
    exit_status,      \* -1 while running, else the process exit status
    stdout,           \* lines printed by this invocation
    listing,          \* the value the for loop iterates over
    idx,              \* index in listing of the entry being considered
    files_processed,
    files_failed,
    audio,            \* duration of the decoded buffer
    trimmed_audio,    \* duration of the sliced buffer
    \* history, per invocation
    disk0,            \* disk at the start of this invocation
    listed,           \* os.listdir has been called
    opened,           \* names whose file was opened by decode, export or stat
    decoded,          \* name -> duration decode returned (-1: none)
    exported,         \* name -> duration of the buffer handed to export (-1)
    overwritten,      \* names whose file content was replaced by export
    failStep,         \* name -> step that raised ("none" when none)
    new_duration,     \* name -> new duration printed (-1: none)
    \* history of the previous invocation
    prev_duration,    \* name -> new duration printed by the previous run
    prev_allok        \* previous run reached the summary with nothing failed

vars == <<dirEntries, disk, codec_pad, pc, run, exit_status, stdout, listing, idx,
          files_processed, files_failed, audio, trimmed_audio, disk0, listed,
          opened, decoded, exported, overwritten, failStep, new_duration,
          prev_duration, prev_allok>>

env == <<dirEntries, disk, codec_pad>>
prog == <<listing, idx, files_processed, files_failed, audio, trimmed_audio>>
hist == <<opened, decoded, exported, overwritten, failStep, new_duration>>
prev == <<prev_duration, prev_allok>>

filename == listing[idx]

NoDur == [n \in Names |-> -1]
NoStep == [n \in Names |-> "none"]

\* Directory listings: sequences of distinct names, at most MaxFiles long.
Listings ==
    {s \in UNION {[1..n -> Names] : n \in 0..MaxFiles} :
        \A i, j \in 1..Len(s) : i # j => s[i] # s[j]}

Init ==
    /\ dirEntries \in Listings
    /\ disk \in [Range(dirEntries) -> [dur : Durations, intact : {TRUE}]]
    /\ codec_pad \in CodecPads
    /\ pc = "import"
    /\ run = 1
    /\ exit_status = -1
    /\ stdout = <<>>
    /\ listing = <<>>
    /\ idx = 0
    /\ files_processed = <<>>
    /\ files_failed = <<>>
    /\ audio = 0
    /\ trimmed_audio = 0
    /\ disk0 = disk
    /\ listed = FALSE
    /\ opened = {}
    /\ decoded = NoDur
    /\ exported = NoDur
    /\ overwritten = {}
    /\ failStep = NoStep
    /\ new_duration = NoDur
    /\ prev_duration = NoDur
    /\ prev_allok = FALSE

(* ------------------------------ actions -------------------------------- *)

\* Lines 10-11 succeed; lines 18-27: banner and the two empty lists.
ImportOK ==
    /\ pc = "import"
    /\ stdout' = stdout \o <<<<"banner">>, <<"rule">>>>
    /\ files_processed' = <<>>
    /\ files_failed' = <<>>
    /\ pc' = "listdir"
    /\ UNCHANGED <<env, run, exit_status, listing, idx, audio, trimmed_audio,
                   disk0, listed, hist, prev>>

\* Variant: the diagnostic is printed but sys.exit(1) is missing.
ImportFail_NoExit ==
    /\ pc = "import"
    /\ stdout' = stdout \o << <<"ERROR: pydub not installed">>,
                              <<"Install with: pip install pydub">> >>
    /\ files_processed' = <<>>
    /\ files_failed' = <<>>
    /\ pc' = "listdir"
    /\ UNCHANGED <<env, run, exit_status, listing, idx, audio, trimmed_audio,
                   disk0, listed, hist, prev>>

\* Lines 12-15: pydub is not installed.
ImportFail ==
    /\ pc = "import"
    /\ stdout' = stdout \o << <<"ERROR: pydub not installed">>,
                              <<"Install with: pip install pydub">> >>
    /\ exit_status' = 1
    /\ pc' = "exited"
    /\ UNCHANGED <<env, run, prog, disk0, listed, hist, prev>>

\* Line 29: os.listdir(music_dir) returns.
ListDir ==
    /\ pc = "listdir"
    /\ listing' = dirEntries
    /\ listed' = TRUE
    /\ idx' = 1
    /\ pc' = "loop"
    /\ UNCHANGED <<env, run, exit_status, stdout, files_processed, files_failed,
                   audio, trimmed_audio, disk0, hist, prev>>

\* Line 29: os.listdir(music_dir) raises (no such directory, no permission);
\* nothing catches it and the interpreter ends the run.
ListDirFail ==
    /\ pc = "listdir"
    /\ listed' = TRUE
    /\ exit_status' = 1
    /\ pc' = "crashed"
    /\ UNCHANGED <<env, run, stdout, prog, disk0, hist, prev>>

\* Line 30 false: the entry is passed over.
SkipEntry ==
    /\ pc = "loop"
    /\ idx <= Len(listing)
    /\ ~Eligible(filename)
    /\ idx' = idx + 1
    /\ UNCHANGED <<env, pc, run, exit_status, stdout, listing, files_processed,
                   files_failed, audio, trimmed_audio, disk0, listed, hist, prev>>

\* Lines 30-32: the entry is eligible.
TakeEntry ==
    /\ pc = "loop"
    /\ idx <= Len(listing)
    /\ Eligible(filename)
    /\ stdout' = Append(stdout, <<"Processing", filename>>)
    /\ pc' = "decode"
    /\ UNCHANGED <<env, run, exit_status, prog, disk0, listed, hist, prev>>

\* Variant: the except clause prints the error but does not record the name.
Fail_NoRecord(step) ==
    /\ stdout' = Append(stdout, <<"Error", step>>)
    /\ files_failed' = files_failed
    /\ failStep' = [failStep EXCEPT ![filename] = step]
    /\ idx' = idx + 1
    /\ pc' = "loop"
    /\ UNCHANGED <<dirEntries, codec_pad, run, exit_status, listing,
                   files_processed, disk0, listed, prev>>

\* Variant: the except clause records the name and leaves the loop.
Fail_Break(step) ==
    /\ stdout' = Append(stdout, <<"Error", step>>)
    /\ files_failed' = Append(files_failed, filename)
    /\ failStep' = [failStep EXCEPT ![filename] = step]
    /\ idx' = Len(listing) + 1
    /\ pc' = "loop"
    /\ UNCHANGED <<dirEntries, codec_pad, run, exit_status, listing,
                   files_processed, disk0, listed, prev>>

\* Lines 59-61: the except clause, entered from the step that raised.
Fail(step) ==
    /\ stdout' = Append(stdout, <<"Error", step>>)
    /\ files_failed' = Append(files_failed, filename)
    /\ failStep' = [failStep EXCEPT ![filename] = step]
    /\ idx' = idx + 1
    /\ pc' = "loop"
    /\ UNCHANGED <<dirEntries, codec_pad, run, exit_status, listing,
                   files_processed, disk0, listed, prev>>

\* len(AudioSegment.from_mp3(filepath)): the duration of the buffer decoded
\* from a file, which is the encoded duration plus the codec's padding.
Decode(content) == content.dur + codec_pad

\* Lines 36-40: AudioSegment.from_mp3 returns a buffer.
DecodeOK ==
    /\ pc = "decode"
    /\ disk[filename].intact
    /\ audio' = Decode(disk[filename])
    /\ decoded' = [decoded EXCEPT ![filename] = Decode(disk[filename])]
    /\ stdout' = Append(stdout, <<"Original duration", Decode(disk[filename])>>)
    /\ opened' = opened \cup {filename}
    /\ pc' = "slice"
    /\ UNCHANGED <<env, run, exit_status, listing, idx, files_processed,
                   files_failed, trimmed_audio, disk0, listed, exported,
                   overwritten, failStep, new_duration, prev>>

\* Variant: the path is opened for writing before the decode, so a failing
\* decode leaves the file empty.
DecodeFail_Truncates ==
    /\ pc = "decode"
    /\ Fail("decode")
    /\ opened' = opened \cup {filename}
    /\ disk' = [disk EXCEPT ![filename] = [dur |-> 0, intact |-> FALSE]]
    /\ UNCHANGED <<audio, trimmed_audio, decoded, exported, overwritten,
                   new_duration>>

\* Line 36 raises: unreadable or corrupt file, codec error.
DecodeFail ==
    /\ pc = "decode"
    /\ Fail("decode")
    /\ opened' = opened \cup {filename}
    /\ UNCHANGED <<disk, audio, trimmed_audio, decoded, exported, overwritten,
                   new_duration>>

\* Line 43: trimmed_audio = audio[:trim_duration]
SliceOK ==
    /\ pc = "slice"
    /\ trimmed_audio' = Slice(audio, trim_duration)
    /\ pc' = "export"
    /\ UNCHANGED <<env, run, exit_status, stdout, listing, idx, files_processed,
                   files_failed, audio, disk0, listed, hist, prev>>

\* Line 43 raises (out of memory copying the samples).
SliceFail ==
    /\ pc = "slice"
    /\ Fail("slice")
    /\ UNCHANGED <<disk, audio, trimmed_audio, opened, decoded, exported,
                   overwritten, new_duration>>

\* Lines 46-50: export writes the sliced buffer over the file; the new
\* duration is the length of the sliced buffer.
\* Durations are kept in milliseconds; the script divides by 1000 to print
\* seconds, which maps equal lengths to equal values and no others.
ExportOK ==
    /\ pc = "export"
    /\ disk' = [disk EXCEPT ![filename] = [dur |-> trimmed_audio, intact |-> TRUE]]
    /\ opened' = opened \cup {filename}
    /\ exported' = [exported EXCEPT ![filename] = trimmed_audio]
    /\ overwritten' = overwritten \cup {filename}
    /\ new_duration' = [new_duration EXCEPT ![filename] = trimmed_audio]
    /\ stdout' = Append(stdout, <<"New duration", trimmed_audio>>)
    /\ pc' = "getsize"
    /\ UNCHANGED <<dirEntries, codec_pad, run, exit_status, prog, disk0, listed,
                   decoded, failStep, prev>>

\* Line 46 raises.  Either the file could not be opened for writing and is as
\* it was, or it was opened (which empties it) and the encoder failed.
ExportFail ==
    /\ pc = "export"
    /\ Fail("export")
    /\ exported' = [exported EXCEPT ![filename] = trimmed_audio]
    /\ \/ /\ disk' = disk
          /\ UNCHANGED <<opened, overwritten>>
       \/ /\ disk' = [disk EXCEPT ![filename] = [dur |-> 0, intact |-> FALSE]]
          /\ opened' = opened \cup {filename}
          /\ overwritten' = overwritten \cup {filename}
    /\ UNCHANGED <<audio, trimmed_audio, decoded, new_duration>>

\* Variant: files_processed.insert(0, filename) in place of append.
GetSizeOK_Prepend ==
    /\ pc = "getsize"
    /\ stdout' = stdout \o << <<"New file size", EncodedSize(disk[filename].dur)>>,
                              <<"Successfully trimmed">> >>
    /\ files_processed' = <<filename>> \o files_processed
    /\ idx' = idx + 1
    /\ pc' = "loop"
    /\ UNCHANGED <<env, run, exit_status, listing, files_failed, audio,
                   trimmed_audio, disk0, listed, hist, prev>>

\* Lines 53-57: the size is read back and the name joins files_processed.
GetSizeOK ==
    /\ pc = "getsize"
    /\ stdout' = stdout \o << <<"New file size", EncodedSize(disk[filename].dur)>>,
                              <<"Successfully trimmed">> >>
    /\ files_processed' = Append(files_processed, filename)
    /\ idx' = idx + 1
    /\ pc' = "loop"
    /\ UNCHANGED <<env, run, exit_status, listing, files_failed, audio,
                   trimmed_audio, disk0, listed, hist, prev>>

\* Line 53 raises.
GetSizeFail ==
    /\ pc = "getsize"
    /\ Fail("getsize")
    /\ UNCHANGED <<disk, audio, trimmed_audio, opened, decoded, exported,
                   overwritten, new_duration>>

\* Lines 63-78: the loop is over; the summary is printed.
Summary ==
    /\ pc = "loop"
    /\ idx > Len(listing)
    /\ stdout' = stdout
          \o << <<"rule">>, <<"Summary">>,
                <<"Successfully processed", Len(files_processed)>>,
                <<"Failed", Len(files_failed)>> >>
          \o (IF files_processed # <<>>
                THEN <<<<"Trimmed files", files_processed>>>> ELSE <<>>)
          \o (IF files_failed # <<>>
                THEN <<<<"Failed files", files_failed>>>> ELSE <<>>)
          \o <<<<"Done!">>>>
    /\ exit_status' = 0
    /\ pc' = "done"
    /\ UNCHANGED <<env, run, prog, disk0, listed, hist, prev>>

\* The script is started again over the same directory.
Rerun ==
    /\ pc = "done"
    /\ run < MaxRuns
    /\ run' = run + 1
    /\ pc' = "import"
    /\ exit_status' = -1
    /\ stdout' = <<>>
    /\ listing' = <<>>
    /\ idx' = 0
    /\ files_processed' = <<>>
    /\ files_failed' = <<>>
    /\ audio' = 0
    /\ trimmed_audio' = 0
    /\ disk0' = disk
    /\ listed' = FALSE
    /\ opened' = {}
    /\ decoded' = NoDur
    /\ exported' = NoDur
    /\ overwritten' = {}
    /\ failStep' = NoStep
    /\ new_duration' = NoDur
    /\ prev_duration' = new_duration
    /\ prev_allok' = (files_failed = <<>>)
    /\ UNCHANGED env

Next ==
    \/ ImportOK
    \/ ImportFail
    \/ ListDir
    \/ ListDirFail
    \/ SkipEntry
    \/ TakeEntry
    \/ DecodeOK
    \/ DecodeFail
    \/ SliceOK
    \/ SliceFail
    \/ ExportOK
    \/ ExportFail
    \/ GetSizeOK
    \/ GetSizeFail
    \/ Summary
    \/ Rerun

Spec == Init /\ [][Next]_vars

TypeOK ==
    /\ pc \in {"import", "listdir", "loop", "decode", "slice", "export",
               "getsize", "done", "exited", "crashed"}
    /\ run \in 1..MaxRuns
    /\ idx \in 0..(Len(listing) + 1)
    /\ audio >= 0 /\ trimmed_audio >= 0

(* ------------------------- vocabulary of the claims -------------------- *)

\* The name ends with the four characters ".mp3", compared as they are.
HasMp3Suffix(n) ==
    /\ Len(n) >= 4
    /\ n[Len(n) - 3] = "."
    /\ n[Len(n) - 2] = "m"
    /\ n[Len(n) - 1] = "p"
    /\ n[Len(n)] = "3"

\* The name starts with the five characters "temp_".
HasTempPrefix(n) ==
    /\ Len(n) >= 5
    /\ n[1] = "t" /\ n[2] = "e" /\ n[3] = "m" /\ n[4] = "p" /\ n[5] = "_"

ShouldTake(n) == HasMp3Suffix(n) /\ ~HasTempPrefix(n)

\* Names for which per-file processing was started (a "Processing" line).
Taken == {stdout[i][2] : i \in {j \in 1..Len(stdout) : stdout[j][1] = "Processing"}}

\* Entries of the listing the loop has already decided on.
Decided == {i \in 1..Len(listing) : i < idx \/ (i = idx /\ pc # "loop")}

\* Entries of the listing the loop is done with.
Finished == {i \in 1..Len(listing) : i < idx}

Processed == Range(files_processed)
Failed == Range(files_failed)

Position(seq, n) == CHOOSE k \in 1..Len(seq) : seq[k] = n

\* seq holds no name twice and keeps the order of the directory listing.
InListingOrder(seq) ==
    /\ \A i \in 1..Len(seq) : seq[i] \in Range(listing)
    /\ \A i, j \in 1..Len(seq) :
          i < j => Position(listing, seq[i]) < Position(listing, seq[j])

\* The lists printed under the given heading of the summary.
Printed(heading) ==
    {stdout[i][2] : i \in {j \in 1..Len(stdout) : stdout[j][1] = heading}}

Abs(x) == IF x < 0 THEN -x ELSE x

(* ------------------------------- claims -------------------------------- *)

\* C1: when a run reaches the summary, every eligible name of the listing is
\* in exactly one of files_processed and files_failed, and the two lengths
\* add up to the number of eligible entries.
C1_Partition ==
    pc = "done" =>
        /\ \A i \in 1..Len(listing) :
              ShouldTake(listing[i]) =>
                  (listing[i] \in Processed) # (listing[i] \in Failed)
        /\ Len(files_processed) + Len(files_failed)
              = Cardinality({i \in 1..Len(listing) : ShouldTake(listing[i])})

C1_Witness ==
    /\ pc = "done"
    /\ Len(files_processed) = 1
    /\ Len(files_failed) = 1

\* C2: an entry is taken into per-file processing iff its name ends with
\* ".mp3" (case-sensitive) and does not start with "temp_"; no file is opened
\* before its name has been found eligible.
C2_EligibleIffName ==
    /\ \A i \in Decided : (listing[i] \in Taken) <=> ShouldTake(listing[i])
    /\ Taken \subseteq {listing[i] : i \in Decided}
    /\ opened \subseteq Taken

C2_Witness ==
    /\ pc = "done"
    /\ \E i, j \in 1..Len(listing) :
          /\ listing[i] \in Taken
          /\ listing[j] \notin Taken
          /\ HasMp3Suffix(listing[j])

\* C3: a file whose processing fails at decode, truncate, export or size
\* read-back is recorded in files_failed only, and the scan goes on: at the
\* summary every eligible entry was attempted, and each one whose steps all
\* succeeded is in files_processed.
C3_FailureIsolation ==
    /\ \A i \in Finished :
          ShouldTake(listing[i]) =>
              /\ listing[i] \in Taken
              /\ failStep[listing[i]] # "none" =>
                    listing[i] \in Failed /\ listing[i] \notin Processed
              /\ failStep[listing[i]] = "none" =>
                    listing[i] \in Processed /\ listing[i] \notin Failed
    /\ pc = "done" => Finished = 1..Len(listing)
    /\ (pc \in {"decode", "slice", "export", "getsize"}) => idx \in 1..Len(listing)

C3_Witness ==
    /\ pc = "done"
    /\ Len(listing) = 2
    /\ failStep[listing[1]] \in {"decode", "slice", "export", "getsize"}
    /\ listing[1] \in Failed
    /\ listing[2] \in Processed

\* C4: the buffer handed to export has duration min(d, 20000), d being the
\* duration of the decoded buffer: longer buffers are cut to 20000 ms, buffers
\* of 20000 ms or less keep their duration.
C4_TrimToMin ==
    /\ \A n \in Names :
          exported[n] # -1 =>
              /\ decoded[n] > 20000 => exported[n] = 20000
              /\ decoded[n] <= 20000 => exported[n] = decoded[n]
    /\ \A n \in Processed : disk[n].dur = exported[n] /\ exported[n] # -1
    /\ pc \in {"export", "getsize"} =>
          trimmed_audio = (IF audio > 20000 THEN 20000 ELSE audio)

C4_Witness ==
    \E n, m \in Processed :
        /\ decoded[n] = 20000 /\ exported[n] = 20000
        /\ decoded[m] = 20001 /\ exported[m] = 20000

\* C5 as stated: in a run over a directory whose eligible files were all
\* trimmed by the previous run, each file's new duration equals the new
\* duration the previous run printed.
C5_SecondRunEqual ==
    (run >= 2 /\ prev_allok) =>
        \A n \in Names :
            (prev_duration[n] # -1 /\ new_duration[n] # -1) =>
                new_duration[n] = prev_duration[n]

\* C5 as amended: the second run's new duration is within the codec's
\* padding of the first run's and is at most 20000 ms; it is equal whenever
\* the file decodes to the duration that the first run wrote.
C5_SecondRunWithinRounding ==
    (run >= 2 /\ prev_allok) =>
        \A n \in Names :
            (prev_duration[n] # -1 /\ new_duration[n] # -1) =>
                /\ Abs(new_duration[n] - prev_duration[n]) <= MaxPad
                /\ new_duration[n] <= 20000
                /\ decoded[n] = prev_duration[n] =>
                      new_duration[n] = prev_duration[n]

C5_Witness ==
    /\ run = 2
    /\ prev_allok
    /\ pc = "done"
    /\ \E n \in Processed :
          prev_duration[n] = 20000 /\ new_duration[n] = 20000 /\ disk0[n].dur = 20000

\* C6: when the import of the codec library fails, the diagnostic and the
\* install hint are printed and the run ends with a non-zero status; the
\* directory is not listed, no file is opened or changed, no name is recorded.
C6_ImportGuard ==
    (\E i \in 1..Len(stdout) : stdout[i] = <<"ERROR: pydub not installed">>) =>
        /\ pc = "exited"
        /\ exit_status # 0 /\ exit_status # -1
        /\ stdout = << <<"ERROR: pydub not installed">>,
                       <<"Install with: pip install pydub">> >>
        /\ ~listed
        /\ listing = <<>>
        /\ opened = {} /\ overwritten = {}
        /\ disk = disk0
        /\ files_processed = <<>> /\ files_failed = <<>>

C6_Witness ==
    /\ pc = "exited"
    /\ \E i \in 1..Len(dirEntries) : ShouldTake(dirEntries[i])

\* C7: files_processed and files_failed hold no name twice, keep the order in
\* which the listing yielded the names, and are printed as they are.
C7_ListOrder ==
    /\ InListingOrder(files_processed)
    /\ InListingOrder(files_failed)
    /\ pc = "done" =>
          /\ Printed("Trimmed files")
                = (IF files_processed = <<>> THEN {} ELSE {files_processed})
          /\ Printed("Failed files")
                = (IF files_failed = <<>> THEN {} ELSE {files_failed})

C7_Witness ==
    /\ pc = "done"
    /\ Len(files_processed) = 2
    /\ Printed("Trimmed files") = {files_processed}

C9_IneligibleUntouched ==
    \A n \in Range(dirEntries) :
        ~ShouldTake(n) =>
            /\ disk[n] = disk0[n]
            /\ n \notin opened
            /\ n \notin overwritten
            /\ decoded[n] = -1 /\ exported[n] = -1
            /\ n \notin Processed /\ n \notin Failed

C9_Witness ==
    /\ pc = "done"
    /\ \E n \in Range(listing) : ~ShouldTake(n)
    /\ \E m \in Failed : disk[m] # disk0[m]

\* C10: the content of a file changes only in the export step, which runs
\* only after decode and truncation of that file succeeded: a file whose
\* decode failed is in files_failed with its content as it was, and a failed
\* file has changed content only if export or the size read-back failed.
C10_OnlyExportWrites ==
    \A n \in Range(dirEntries) :
        /\ (disk[n] # disk0[n] \/ n \in overwritten) =>
              /\ decoded[n] # -1
              /\ exported[n] # -1
              /\ failStep[n] \in {"none", "export", "getsize"}
        /\ failStep[n] = "decode" => (n \in Failed /\ disk[n] = disk0[n])
        /\ (n \in Failed /\ disk[n] # disk0[n]) =>
              failStep[n] \in {"export", "getsize"}

C10_Witness ==
    \E n, m \in Failed :
        /\ failStep[n] = "decode" /\ disk[n] = disk0[n]
        /\ failStep[m] = "export" /\ disk[m] # disk0[m]

====
